---- MODULE Spec2Model ----
(***************************************************************************)
(* Fourier-space combination of single-dish and interferometer images      *)
(* (uvcombine.py): feather_kernel, fftmerge, fourier_combine_cubes, regrid,  *)
(* feather_simple, feather_compare, AKB_combine and AKB_interpol.           *)
(*                                                                         *)
(* Numbers.  numpy's float64 values are modelled exactly (no rounding):    *)
(* a real is a triple <<a, b, d>> standing for (a + b*sqrt(2)) / d with    *)
(* d > 0 and gcd(a, b, d) = 1.  The field Q(sqrt 2) is closed under the    *)
(* arithmetic of the program on grids whose sides are 1, 2 or 4, where the *)
(* discrete Fourier transform only needs the twiddle factors 1, -1, i, -i. *)
(* d = 0 marks a non-finite float: <<1,0,0>> is +Inf, <<-1,0,0>> is -Inf   *)
(* and <<0,0,0>> is NaN.  A complex number is a pair <<re, im>>.           *)
(***************************************************************************)
EXTENDS Integers, Sequences, FiniteSets, TLC

VARIABLES
    pc,                 \* where the call under study stands
    shape,              \* <<nax2, nax1>>: rows and columns of the spatial grid
    kfft, ikfft,        \* the weight kernels
    \* fftmerge: arguments and locals
    im_hi, im_lo, highpassfilterSD, replace_hires, deconvSD, min_beam_fraction,
    nan_hi, nan_lo, fft_hi, fft_lo, fftsum, combo,
    \* feather_kernel: arguments and locals
    lowresfwhm, pixscale, kernel,
    \* fourier_combine_cubes: arguments, locals, outcome
    cube_hi, cube_lo, highresscalefactor, lowresscalefactor,
    dcube_lo, outcube, ii, err, ret,
    \* feather_simple, feather_compare and regrid: arguments and locals
    hires, lores, header_hi, header_low, im_lowraw, im_low, hdu_low,
    return_hdu, return_regridded_lores, SAS, LAS, fft_lo_deconvolved, mask, ratio,
    \* AKB_combine and AKB_interpol: which of the two is called, arguments
    entry, lores2, output_fits, targres,
    calls               \* the calls made so far to other routines, in order

mergeArgs == <<im_hi, im_lo, highpassfilterSD, replace_hires, deconvSD,
               min_beam_fraction>>
mergeLocals == <<nan_hi, nan_lo, fft_hi, fft_lo>>
kernelVars == <<lowresfwhm, pixscale, kernel>>
cubeArgs == <<cube_hi, cube_lo, highresscalefactor, lowresscalefactor>>
cubeLocals == <<dcube_lo, outcube, ii, err, ret>>
simpleVars == <<hires, lores, header_hi, header_low, im_lowraw, im_low, hdu_low,
                return_hdu, return_regridded_lores, SAS, LAS, fft_lo_deconvolved,
                mask, ratio, entry, lores2, output_fits, targres>>

vars == <<pc, shape, kfft, ikfft, mergeArgs, mergeLocals, fftsum, combo,
          kernelVars, cubeArgs, cubeLocals, simpleVars, calls>>

------------------------------------------------------------------------------
(* Integer helpers *)

IAbs(n) == IF n < 0 THEN -n ELSE n

ISign(n) == IF n < 0 THEN -1 ELSE IF n > 0 THEN 1 ELSE 0

RECURSIVE GCD(_, _)
GCD(a, b) == IF b = 0 THEN a ELSE GCD(b, a % b)

Pow2(e) == 2 ^ e

------------------------------------------------------------------------------
(* float64 values *)

NaN == <<0, 0, 0>>
PInf == <<1, 0, 0>>
NInf == <<-1, 0, 0>>
Zero == <<0, 0, 1>>
One == <<1, 0, 1>>

\* the rational n/d and the integer n as floats
Rat(n, d) == LET g == GCD(IAbs(n), d) IN <<n \div g, 0, d \div g>>
Num(n) == <<n, 0, 1>>

IsFinite(x) == x[3] # 0
IsNaN(x) == x[3] = 0 /\ x[1] = 0

\* x reduced to lowest terms
Norm(a, b, d) ==
    LET g == GCD(GCD(IAbs(a), IAbs(b)), d)
    IN  <<a \div g, b \div g, d \div g>>

\* a > b*sqrt(2) for naturals a, b with b > 0, without squaring: for
\* b < a < 2b it is the same as 2b - a < (a - b)*sqrt(2)
RECURSIVE GtSqrt2(_, _)
GtSqrt2(a, b) ==
    IF a >= 2 * b THEN TRUE
    ELSE IF a <= b THEN FALSE
    ELSE ~GtSqrt2(2 * b - a, a - b)

\* the sign of a float: 1, -1, or 0 for zero and for NaN
Sign(x) ==
    LET a == x[1]
        b == x[2]
    IN  IF a >= 0 /\ b >= 0 THEN (IF a = 0 /\ b = 0 THEN 0 ELSE 1)
        ELSE IF a <= 0 /\ b <= 0 THEN -1
        ELSE IF a > 0 THEN (IF GtSqrt2(a, -b) THEN 1 ELSE -1)
        ELSE (IF GtSqrt2(-a, b) THEN -1 ELSE 1)

Inf(s) == IF s > 0 THEN PInf ELSE IF s < 0 THEN NInf ELSE NaN

RNeg(x) == <<-x[1], -x[2], x[3]>>

RAdd(x, y) ==
    IF IsFinite(x) /\ IsFinite(y)
    THEN LET g == GCD(x[3], y[3])
             mx == y[3] \div g
             my == x[3] \div g
         IN  Norm(x[1] * mx + y[1] * my, x[2] * mx + y[2] * my, x[3] * mx)
    ELSE IF IsFinite(y) THEN x
    ELSE IF IsFinite(x) THEN y
    ELSE IF x = y THEN x ELSE NaN

RSub(x, y) == RAdd(x, RNeg(y))

RMul(x, y) ==
    IF IsFinite(x) /\ IsFinite(y)
    THEN LET gx == GCD(GCD(IAbs(x[1]), IAbs(x[2])), y[3])
             gy == GCD(GCD(IAbs(y[1]), IAbs(y[2])), x[3])
             xa == x[1] \div gx
             xb == x[2] \div gx
             xd == x[3] \div gy
             ya == y[1] \div gy
             yb == y[2] \div gy
             yd == y[3] \div gx
         IN  Norm(xa * ya + 2 * xb * yb, xa * yb + xb * ya, xd * yd)
    ELSE Inf(Sign(x) * Sign(y))

\* 1 / x for a finite non-zero x
RInv(x) ==
    LET a == x[1]
        b == x[2]
        d == x[3]
    IN  IF b = 0 THEN Norm(ISign(a) * d, 0, IAbs(a))
        ELSE IF a = 0 THEN Norm(0, ISign(b) * d, 2 * IAbs(b))
        ELSE LET n == a * a - 2 * b * b
             IN  Norm(ISign(n) * d * a, -ISign(n) * d * b, IAbs(n))

\* IEEE division: x/0 is +-Inf, 0/0 is NaN, finite/Inf is 0
RDiv(x, y) ==
    IF IsFinite(x) /\ IsFinite(y)
    THEN IF y = Zero THEN Inf(Sign(x)) ELSE RMul(x, RInv(y))
    ELSE IF IsFinite(x) THEN (IF IsNaN(y) THEN NaN ELSE Zero)
    ELSE IF IsFinite(y) THEN Inf(Sign(x) * (IF Sign(y) < 0 THEN -1 ELSE 1))
    ELSE NaN

\* x < y and x > y; every comparison with NaN is false
RLess(x, y) == ~IsNaN(x) /\ ~IsNaN(y) /\ Sign(RSub(x, y)) < 0
RGreater(x, y) == RLess(y, x)
RLeq(x, y) == ~IsNaN(x) /\ ~IsNaN(y) /\ ~RLess(y, x)

RAbs(x) == IF Sign(x) < 0 THEN RNeg(x) ELSE x

Sqrt2 == <<0, 1, 1>>

------------------------------------------------------------------------------
(* complex128 values: a non-finite component makes the whole value CNaN *)

CNaN == <<NaN, NaN>>
CZero == <<Zero, Zero>>

CFinite(z) == IsFinite(z[1]) /\ IsFinite(z[2])
Cx(re, im) == IF IsFinite(re) /\ IsFinite(im) THEN <<re, im>> ELSE CNaN
Complex(x) == Cx(x, Zero)

CAdd(z, w) == Cx(RAdd(z[1], w[1]), RAdd(z[2], w[2]))

\* a real array element times a complex one, a complex one over a real one
CScale(x, z) == IF CFinite(z) THEN Cx(RMul(x, z[1]), RMul(x, z[2])) ELSE CNaN
CDivR(z, x) == IF CFinite(z) THEN Cx(RDiv(z[1], x), RDiv(z[2], x)) ELSE CNaN

\* z * (-i)^q
Rot(z, q) ==
    IF ~CFinite(z) THEN CNaN
    ELSE CASE q % 4 = 0 -> z
           [] q % 4 = 1 -> <<z[2], RNeg(z[1])>>
           [] q % 4 = 2 -> <<RNeg(z[1]), RNeg(z[2])>>
           [] q % 4 = 3 -> <<RNeg(z[2]), z[1]>>

\* |z| for the values a transform of a symmetric real kernel takes
CAbs(z) ==
    IF ~CFinite(z) THEN NaN
    ELSE IF z[2] = Zero THEN RAbs(z[1])
    ELSE IF z[1] = Zero THEN RAbs(z[2])
    ELSE IF RAbs(z[1]) = RAbs(z[2]) THEN RMul(Sqrt2, RAbs(z[1]))
    ELSE <<0, 1, 0>>

Real(z) == z[1]

------------------------------------------------------------------------------
(* 2-D arrays: functions on the index pairs <<row, column>> of a shape      *)
(* <<nax2, nax1>>, rows first as in numpy                                  *)

Idx(sh) == (0 .. sh[1] - 1) \X (0 .. sh[2] - 1)

\* an ndarray holds its elements: a function written out as the table of its values
Array(f) == f @@ <<>>

\* the k-th index pair in row-major order, k in 0 .. nax2*nax1 - 1
Unravel(sh, k) == <<k \div sh[2], k % sh[2]>>

\* the sum of terms[lo] .. terms[hi]
RECURSIVE CSum(_, _, _)
CSum(terms, lo, hi) ==
    IF lo = hi THEN terms[lo]
    ELSE LET mid == (lo + hi) \div 2
         IN  CAdd(CSum(terms, lo, mid), CSum(terms, mid + 1, hi))

\* np.fft.fft2: X[u,v] = sum over (r,c) of x[r,c] * exp(-2 pi i (u r/nax2 + v c/nax1));
\* on sides 1, 2 and 4 the factor is (-i)^q with q quarter turns
Turns(sh, p, k) == p[1] * k[1] * (4 \div sh[1]) + p[2] * k[2] * (4 \div sh[2])

fft2(x, sh) ==
    LET n == sh[1] * sh[2]
        a == Array(x)
    IN  Array([p \in Idx(sh) |->
            CSum([k \in 1 .. n |->
                     Rot(a[Unravel(sh, k - 1)], Turns(sh, p, Unravel(sh, k - 1)))], 1, n)])

\* np.fft.ifft2: the conjugate factors, divided by the number of pixels
ifft2(x, sh) ==
    LET n == sh[1] * sh[2]
        a == Array(x)
    IN  Array([p \in Idx(sh) |->
            CDivR(CSum([k \in 1 .. n |->
                           Rot(a[Unravel(sh, k - 1)], -Turns(sh, p, Unravel(sh, k - 1)))], 1, n),
                  Num(n))])

\* the largest finite float64, which np.nan_to_num puts in place of an
\* infinity; the model carries a small stand-in for 1.797e308
FloatMax == 1000

\* np.nan_to_num on one sample: NaN becomes 0, +-Inf the largest finite float
nan_to_num(x) ==
    IF IsFinite(x) THEN x
    ELSE IF IsNaN(x) THEN Zero
    ELSE IF x = PInf THEN Num(FloatMax) ELSE Num(-FloatMax)

\* a real array as the complex input of the transform, sanitised
Sanitized(im) == [p \in DOMAIN im |-> nan_to_num(im[p])]

\* the argument array after np.nan_to_num(x, copy=False), which sanitises
\* x itself
Argument_inplace(im) == Sanitized(im)

\* lines 279-280: np.nan_to_num(x) copies (copy=True is the default), so the
\* argument array keeps its samples
Argument(im) == im

\* a test that takes every threshold, 0 included, as set
Truthy_notNone(x) == TRUE

\* Python truthiness of the replace_hires argument: False is the number 0
Truthy(x) == x # Zero

------------------------------------------------------------------------------
(* feather_kernel, lines 193-239 *)

\* float64 has no positive value below 2^-1074: np.exp gives 0 beyond it
MinExp2 == 1074

\* lines 218-219, doubled to stay in the integers: 2*ygrid and 2*xgrid at a pixel
Grid2(sh, p) == <<2 * p[1] - (sh[1] - 1), 2 * p[2] - (sh[2] - 1)>>

\* 4 * (xgrid^2 + ygrid^2) at a pixel
Radius4(sh, p) == Grid2(sh, p)[1] * Grid2(sh, p)[1] + Grid2(sh, p)[2] * Grid2(sh, p)[2]

\* lines 222-231: with sigma = lowresfwhm / (sqrt(8 ln 2) * pixscale) the sample
\* exp(-(x^2 + y^2) / (2 sigma^2)) is 2^-e, e = 4 (x^2 + y^2) * (pixscale/lowresfwhm)^2
Gaussian(m, fwhm, scale) ==
    IF m * scale * scale > MinExp2 * fwhm * fwhm THEN Zero
    ELSE <<1, 0, Pow2((m * scale * scale) \div (fwhm * fwhm))>>

\* np.fft.fftshift: each axis rolled by half its length, out[(i + n//2) % n] = in[i]
fftshift(a, sh) ==
    [p \in Idx(sh) |-> a[<<(p[1] + sh[1] - sh[1] \div 2) % sh[1],
                           (p[2] + sh[2] - sh[2] \div 2) % sh[2]>>]]

\* line 231
ShiftedGaussian(sh, fwhm, scale) ==
    fftshift([p \in Idx(sh) |-> Gaussian(Radius4(sh, p), fwhm, scale)], sh)

\* line 234
Magnitude(a, sh) ==
    LET f == fft2([p \in Idx(sh) |-> Complex(a[p])], sh)
    IN  [p \in Idx(sh) |-> CAbs(f[p])]

\* ndarray.max: the largest element, NaN as soon as one element is NaN
ArrayMax(a, sh) ==
    IF \E p \in Idx(sh) : IsNaN(a[p]) THEN NaN
    ELSE CHOOSE m \in {a[p] : p \in Idx(sh)} : \A q \in Idx(sh) : RLeq(a[q], m)

\* line 236
Normalized(a, sh) ==
    LET t == Array(a)
        m == ArrayMax(t, sh)
    IN  Array([p \in Idx(sh) |-> RDiv(t[p], m)])

\* line 237
Complement(kf) == [p \in DOMAIN kf |-> RSub(One, kf[p])]

\* the whole function: <<kfft, ikfft>>
feather_kernel(sh, fwhm, scale) ==
    LET kf == Normalized(Magnitude(ShiftedGaussian(sh, fwhm, scale), sh), sh)
    IN  <<kf, Complement(kf)>>

------------------------------------------------------------------------------
(* fftmerge, lines 243-304 *)

\* the mask taken with >= in place of >
ReplaceHires_geq(ik, fhi, flo, thr) ==
    [p \in DOMAIN flo |-> IF RLeq(thr, ik[p]) THEN fhi[p] ELSE flo[p]]

\* lines 283-288: fft_lo with the bins where ikfft > replace_hires taken from fft_hi
ReplaceHires(ik, fhi, flo, thr) ==
    [p \in DOMAIN flo |-> IF RGreater(ik[p], thr) THEN fhi[p] ELSE flo[p]]

\* line 293
Reconvolved(kf, flo) == [p \in DOMAIN flo |-> CScale(kf[p], flo[p])]

\* the division without line 296
Deconvolved_unmasked(kf, flo, mbf) == [p \in DOMAIN flo |-> CDivR(flo[p], kf[p])]

\* lines 295-296
Deconvolved(kf, flo, mbf) ==
    [p \in DOMAIN flo |-> IF RLess(kf[p], mbf) THEN CZero ELSE CDivR(flo[p], kf[p])]

\* the textbook feather: the low-resolution transform always weighted by kfft
LoConv_weighted(kf, flo, hp, dc, mbf) ==
    IF dc /\ ~hp THEN Deconvolved(kf, flo, mbf) ELSE Reconvolved(kf, flo)

\* deconvSD tested before highpassfilterSD
LoConv_deconvFirst(kf, flo, hp, dc, mbf) ==
    IF dc THEN Deconvolved(kf, flo, mbf)
    ELSE IF hp THEN Reconvolved(kf, flo)
    ELSE flo

\* lines 292-298
LoConv(kf, flo, hp, dc, mbf) ==
    IF hp THEN Reconvolved(kf, flo)
    ELSE IF dc THEN Deconvolved(kf, flo, mbf)
    ELSE flo

\* line 300
Feathered(loc, ik, fhi) == [p \in DOMAIN loc |-> CAdd(loc[p], CScale(ik[p], fhi[p]))]

\* highpassfilterSD and deconvSD tested before replace_hires
MergedSum_replaceLast(kf, ik, fhi, flo, hp, rh, dc, mbf) ==
    IF hp \/ dc \/ ~Truthy(rh) THEN Feathered(LoConv(kf, flo, hp, dc, mbf), ik, fhi)
    ELSE ReplaceHires(ik, fhi, flo, rh)

\* lines 282-300
MergedSum(kf, ik, fhi, flo, hp, rh, dc, mbf) ==
    IF Truthy(rh) THEN ReplaceHires(ik, fhi, flo, rh)
    ELSE Feathered(LoConv(kf, flo, hp, dc, mbf), ik, fhi)

\* the transform of an image as fftmerge takes it (lines 279-280)
Transformed(im, sh) == fft2([p \in Idx(sh) |-> Complex(Sanitized(im)[p])], sh)

\* the whole function: <<fftsum, combo>>
fftmerge(kf, ik, hi, lo, sh, hp, rh, dc, mbf) ==
    LET fs == MergedSum(kf, ik, Transformed(hi, sh), Transformed(lo, sh), hp, rh, dc, mbf)
    IN  <<fs, ifft2(fs, sh)>>

------------------------------------------------------------------------------
(* The inputs of an fftmerge call *)

\* finite samples run over -1 .. MaxSample
MaxSample == 2

FiniteSamples == {Num(v) : v \in -1 .. MaxSample}
Samples == FiniteSamples \cup {NaN, PInf, NInf}

MergeShapes == {<<2, 2>>, <<1, 4>>}

FirstIdx == <<0, 0>>
LastIdx(sh) == <<sh[1] - 1, sh[2] - 1>>

\* the image that is c everywhere except for the sample v at pixel at
Spike(sh, c, at, v) == [p \in Idx(sh) |-> IF p = at THEN v ELSE c]

\* a high- and a low-resolution image on the same grid
ImagePairs(sh) ==
    {<<Spike(sh, Num(c), LastIdx(sh), v), Spike(sh, Num(c), FirstIdx, w)>> :
        c \in 1 .. MaxSample, v \in Samples, w \in Samples}

\* weights between 0 and 1, varying from bin to bin
KVals == <<Zero, Rat(1, 4), Rat(1, 2), One>>

Ramp(sh, j) == [p \in Idx(sh) |-> KVals[((p[1] * sh[2] + p[2] + j) % 4) + 1]]

KernelPairs(sh) ==
    {<<Ramp(sh, j), ik>> :
        j \in 0 .. 1, ik \in {Complement(Ramp(sh, 0)), [p \in Idx(sh) |-> One]}}

\* replace_hires: False (the number 0) or a kernel level
Thresholds == {Zero, Rat(1, 2), One}

BeamFractions == {Zero, Rat(1, 10), Rat(1, 2)}

None == <<>>

\* no feather_simple, feather_compare or regrid call is under way
SimpleIdle ==
    /\ hires = None /\ lores = None /\ header_hi = None /\ header_low = None
    /\ im_lowraw = None /\ im_low = None /\ hdu_low = None
    /\ return_hdu = None /\ return_regridded_lores = None
    /\ SAS = None /\ LAS = None /\ ratio = None
    /\ fft_lo_deconvolved = None /\ mask = None
    /\ entry = None /\ lores2 = None /\ output_fits = None /\ targres = None

Init ==
    /\ pc = "call"
    /\ shape \in MergeShapes
    /\ \E ims \in ImagePairs(shape) : im_hi = ims[1] /\ im_lo = ims[2]
    /\ \E ks \in KernelPairs(shape) : kfft = ks[1] /\ ikfft = ks[2]
    /\ highpassfilterSD \in BOOLEAN
    /\ replace_hires \in Thresholds
    /\ deconvSD \in BOOLEAN
    /\ min_beam_fraction \in BeamFractions
    /\ nan_hi = None /\ nan_lo = None
    /\ fft_hi = None /\ fft_lo = None
    /\ fftsum = None /\ combo = None
    /\ lowresfwhm = None /\ pixscale = None /\ kernel = None
    /\ cube_hi = None /\ cube_lo = None
    /\ highresscalefactor = None /\ lowresscalefactor = None
    /\ dcube_lo = None /\ outcube = None /\ ii = None /\ err = None /\ ret = None
    /\ SimpleIdle /\ calls = <<>>

\* lines 279-280
Transform ==
    /\ pc = "call"
    /\ nan_hi' = Sanitized(im_hi)
    /\ nan_lo' = Sanitized(im_lo)
    /\ fft_hi' = fft2([p \in Idx(shape) |-> Complex(nan_hi'[p])], shape)
    /\ fft_lo' = fft2([p \in Idx(shape) |-> Complex(nan_lo'[p])], shape)
    /\ im_hi' = Argument(im_hi)
    /\ im_lo' = Argument(im_lo)
    /\ pc' = "transformed"
    /\ UNCHANGED <<shape, kfft, ikfft, highpassfilterSD, replace_hires, deconvSD,
                   min_beam_fraction, fftsum, combo, kernelVars, cubeArgs,
                   cubeLocals, simpleVars, calls>>

\* lines 282-300
Merge ==
    /\ pc = "transformed"
    /\ fftsum' = MergedSum(kfft, ikfft, fft_hi, fft_lo, highpassfilterSD,
                           replace_hires, deconvSD, min_beam_fraction)
    /\ pc' = "merged"
    /\ UNCHANGED <<shape, kfft, ikfft, mergeArgs, mergeLocals, combo, kernelVars,
                   cubeArgs, cubeLocals, simpleVars, calls>>

\* lines 302-304
Inverse ==
    /\ pc = "merged"
    /\ combo' = ifft2(fftsum, shape)
    /\ pc' = "done"
    /\ UNCHANGED <<shape, kfft, ikfft, mergeArgs, mergeLocals, fftsum, kernelVars,
                   cubeArgs, cubeLocals, simpleVars, calls>>

Next == Transform \/ Merge \/ Inverse

Spec == Init /\ [][Next]_vars

------------------------------------------------------------------------------
(* Claims about fftmerge, checked under Spec *)

Merged == pc \in {"merged", "done"}
ReplaceMode == Truthy(replace_hires)
HighpassMode == ~ReplaceMode /\ highpassfilterSD
DeconvMode == ~ReplaceMode /\ ~highpassfilterSD /\ deconvSD
DefaultMode == ~ReplaceMode /\ ~highpassfilterSD /\ ~deconvSD

\* the flags with only the highest-priority set one kept
OnlyReplace == IF ReplaceMode THEN replace_hires ELSE Zero
OnlyHighpass == HighpassMode
OnlyDeconv == DeconvMode

\* C1: whatever the three flags, the returned fftsum is the fftsum of the call
\* that sets only the highest-priority flag among them (replace_hires, then
\* highpassfilterSD, then deconvSD, then none).
C1_PolicyPriority ==
    pc = "done" =>
        fftsum = fftmerge(kfft, ikfft, im_hi, im_lo, shape, OnlyHighpass,
                          OnlyReplace, OnlyDeconv, min_beam_fraction)[1]

C1_Witness ==
    /\ pc = "done"
    /\ ReplaceMode /\ highpassfilterSD /\ deconvSD
    /\ fftsum # Feathered(LoConv(kfft, fft_lo, TRUE, TRUE, min_beam_fraction),
                          ikfft, fft_hi)

Flat(sh, c) == [p \in Idx(sh) |-> c]
NPix(sh) == sh[1] * sh[2]

\* C2: in default mode every bin of fftsum is fft_lo + ikfft*fft_hi, the
\* low-resolution transform unweighted; for hi = lo = the constant C on N pixels
\* the zero-frequency bin is C*N + ikfft[0,0]*C*N.
C2_DefaultSum ==
    (Merged /\ DefaultMode) =>
        /\ \A p \in Idx(shape) :
               fftsum[p] = CAdd(fft_lo[p], CScale(ikfft[p], fft_hi[p]))
        /\ \A c \in 1 .. MaxSample :
               (im_hi = Flat(shape, Num(c)) /\ im_lo = Flat(shape, Num(c))) =>
                   fftsum[FirstIdx] =
                       Complex(RAdd(Num(c * NPix(shape)),
                                    RMul(ikfft[FirstIdx], Num(c * NPix(shape)))))

C2_Witness ==
    /\ pc = "done" /\ DefaultMode
    /\ im_hi = Flat(shape, Num(2)) /\ im_lo = im_hi
    /\ ikfft[FirstIdx] # Zero
    /\ kfft[FirstIdx] # One

\* C3 as stated: in deconvSD mode a bin with kfft < min_beam_fraction is
\* exactly zero in fftsum, any other bin is fft_lo/kfft + ikfft*fft_hi.
C3_MaskedBinZero ==
    (Merged /\ DeconvMode) =>
        \A p \in Idx(shape) :
            fftsum[p] = IF RLess(kfft[p], min_beam_fraction)
                        THEN CZero
                        ELSE CAdd(CDivR(fft_lo[p], kfft[p]), CScale(ikfft[p], fft_hi[p]))

\* C3 amended: in deconvSD mode a bin with kfft < min_beam_fraction has its
\* low-resolution term set to zero, so fftsum there is ikfft*fft_hi; any other
\* bin is fft_lo/kfft + ikfft*fft_hi.
C3_MaskedBinHiresOnly ==
    (Merged /\ DeconvMode) =>
        \A p \in Idx(shape) :
            fftsum[p] = IF RLess(kfft[p], min_beam_fraction)
                        THEN CScale(ikfft[p], fft_hi[p])
                        ELSE CAdd(CDivR(fft_lo[p], kfft[p]), CScale(ikfft[p], fft_hi[p]))

C3_Witness ==
    /\ pc = "done" /\ DeconvMode
    /\ \E p \in Idx(shape) :
           /\ RLess(kfft[p], min_beam_fraction)
           /\ kfft[p] # Zero /\ fft_lo[p] # CZero
           /\ fftsum[p] # CZero
    /\ \E p \in Idx(shape) : kfft[p] = min_beam_fraction /\ fft_lo[p] # CZero

\* C4: in replace_hires mode every bin of fftsum is fft_hi where
\* ikfft > replace_hires (strictly) and the unmodified fft_lo where
\* ikfft <= replace_hires.
C4_ReplaceHires ==
    (Merged /\ ReplaceMode) =>
        \A p \in Idx(shape) :
            /\ RGreater(ikfft[p], replace_hires) => fftsum[p] = fft_hi[p]
            /\ RLeq(ikfft[p], replace_hires) => fftsum[p] = fft_lo[p]

C4_Witness ==
    /\ pc = "done" /\ ReplaceMode
    /\ \E p \in Idx(shape) : ikfft[p] = replace_hires /\ fft_hi[p] # fft_lo[p]
    /\ \E p \in Idx(shape) : RGreater(ikfft[p], replace_hires) /\ fft_hi[p] # fft_lo[p]

Transformed_ == pc \in {"transformed", "merged", "done"}

\* C6 as stated: the arrays handed to the transform hold zero wherever the
\* input sample is NaN, +Inf or -Inf and the input sample wherever it is finite.
C6_NonFiniteToZero ==
    Transformed_ =>
        \A p \in Idx(shape) :
            /\ nan_hi[p] = IF IsFinite(im_hi[p]) THEN im_hi[p] ELSE Zero
            /\ nan_lo[p] = IF IsFinite(im_lo[p]) THEN im_lo[p] ELSE Zero


\* C18: no step of fftmerge changes kfft, ikfft, im_hi or im_lo, whatever the
\* mode, and the pair returned is the one the arguments determine: a second
\* call with the same arguments gives the same fftsum and combo.
C18_InputsUnchanged ==
    /\ [](pc = "done" =>
             <<fftsum, combo>> =
                 fftmerge(kfft, ikfft, im_hi, im_lo, shape, highpassfilterSD,
                          replace_hires, deconvSD, min_beam_fraction))
    /\ [][UNCHANGED <<kfft, ikfft, im_hi, im_lo>>]_vars

C18_Witness ==
    /\ pc = "done" /\ DeconvMode
    /\ \E p \in Idx(shape) : RLess(kfft[p], min_beam_fraction)
    /\ \E p \in Idx(shape) : ~IsFinite(im_hi[p])
    /\ \E p \in Idx(shape) : ~IsFinite(im_lo[p])

\* C20: with replace_hires = 0 the replace policy is not taken: fftsum is
\* lo_conv + ikfft*fft_hi with lo_conv chosen by highpassfilterSD and deconvSD;
\* the replace policy is taken exactly for the non-zero thresholds.
C20_ZeroThresholdFallsThrough ==
    Merged =>
        IF replace_hires = Zero
        THEN fftsum = Feathered(LoConv(kfft, fft_lo, highpassfilterSD, deconvSD,
                                       min_beam_fraction), ikfft, fft_hi)
        ELSE fftsum = ReplaceHires(ikfft, fft_hi, fft_lo, replace_hires)

C20_Witness ==
    /\ Merged /\ replace_hires = Zero
    /\ \E p \in Idx(shape) : RGreater(ikfft[p], Zero)
    /\ fftsum # ReplaceHires(ikfft, fft_hi, fft_lo, Zero)
    /\ \A p \in Idx(shape) : CFinite(fftsum[p])
------------------------------------------------------------------------------
(* feather_kernel step by step *)

\* grid sides on which the transform is exact
Sides == {1, 2, 4}

\* beam widths 1 .. MaxFwhm and pixel sizes, in the same angular unit
MaxFwhm == 2
Fwhms == 1 .. MaxFwhm
PixScales == {1, 2, 3, 33, 66}

\* the largest exponent e for which the model writes 2^-e out
ModelExps == 0 .. 18

\* every Gaussian sample of the call is a float the model can write
Representable(sh, fwhm, scale) ==
    \A p \in Idx(sh) :
        LET n == Radius4(sh, p) * scale * scale
            d == fwhm * fwhm
        IN  n > MinExp2 * d \/ (n % d = 0 /\ n \div d \in ModelExps)

InitKernel ==
    /\ pc = "call"
    /\ shape \in Sides \X Sides
    /\ lowresfwhm \in Fwhms
    /\ pixscale \in PixScales
    /\ Representable(shape, lowresfwhm, pixscale)
    /\ kernel = None /\ kfft = None /\ ikfft = None
    /\ im_hi = None /\ im_lo = None /\ highpassfilterSD = None
    /\ replace_hires = None /\ deconvSD = None /\ min_beam_fraction = None
    /\ nan_hi = None /\ nan_lo = None
    /\ fft_hi = None /\ fft_lo = None
    /\ fftsum = None /\ combo = None
    /\ cube_hi = None /\ cube_lo = None
    /\ highresscalefactor = None /\ lowresscalefactor = None
    /\ dcube_lo = None /\ outcube = None /\ ii = None /\ err = None /\ ret = None
    /\ SimpleIdle /\ calls = <<>>

kernelFrame == <<shape, lowresfwhm, pixscale, mergeArgs, mergeLocals, fftsum,
                 combo, cubeArgs, cubeLocals, simpleVars, calls>>

\* lines 218-231
MakeGaussian ==
    /\ pc = "call"
    /\ kernel' = ShiftedGaussian(shape, lowresfwhm, pixscale)
    /\ pc' = "kernel"
    /\ UNCHANGED <<kfft, ikfft, kernelFrame>>

\* line 234
TransformKernel ==
    /\ pc = "kernel"
    /\ kfft' = Magnitude(kernel, shape)
    /\ pc' = "kfft"
    /\ UNCHANGED <<kernel, ikfft, kernelFrame>>

\* line 236
NormalizeKernel ==
    /\ pc = "kfft"
    /\ kfft' = Normalized(kfft, shape)
    /\ pc' = "normalized"
    /\ UNCHANGED <<kernel, ikfft, kernelFrame>>

\* lines 237-239
ComplementKernel ==
    /\ pc = "normalized"
    /\ ikfft' = Complement(kfft)
    /\ pc' = "done"
    /\ UNCHANGED <<kernel, kfft, kernelFrame>>

NextKernel == MakeGaussian \/ TransformKernel \/ NormalizeKernel \/ ComplementKernel

SpecKernel == InitKernel /\ [][NextKernel]_vars

\* the magnitude of every transform bin is one the model can write
KernelExact == pc \in {"kfft", "normalized", "done"} =>
    \A p \in Idx(shape) : kfft[p] # <<0, 1, 0>>

InUnit(x) == RLeq(Zero, x) /\ RLeq(x, One)

\* C7 as stated: for every positive shape, beam width and pixel size the two
\* returned arrays have that shape, ikfft = 1 - kfft at every index, the largest
\* kfft value is 1, and every kfft and ikfft value lies in [0, 1].
C7_KernelPair ==
    pc = "done" =>
        /\ DOMAIN kfft = Idx(shape) /\ DOMAIN ikfft = Idx(shape)
        /\ \A p \in Idx(shape) : ikfft[p] = RSub(One, kfft[p])
        /\ ArrayMax(kfft, shape) = One
        /\ \A p \in Idx(shape) : InUnit(kfft[p]) /\ InUnit(ikfft[p])

\* the same, for the calls whose Gaussian does not underflow to zero everywhere
KernelPairWhenNonzero ==
    (pc = "done" /\ \E p \in Idx(shape) : kernel[p] # Zero) =>
        /\ DOMAIN kfft = Idx(shape) /\ DOMAIN ikfft = Idx(shape)
        /\ \A p \in Idx(shape) : ikfft[p] = RSub(One, kfft[p])
        /\ ArrayMax(kfft, shape) = One
        /\ \A p \in Idx(shape) : InUnit(kfft[p]) /\ InUnit(ikfft[p])

------------------------------------------------------------------------------
(* fourier_combine_cubes, lines 998-1087 *)

\* line 1036: the element count above which the call refuses to work in memory
MaxCubeSize == 100000000

BrightnessUnits == {"Jy/beam", "mJy/beam", "K"}

\* what astropy converts without equivalencies: units of one physical type
PhysicalType(unit) ==
    CASE unit \in {"Jy/beam", "mJy/beam"} -> "flux density per beam"
      [] unit = "K" -> "temperature"
      [] OTHER -> "length"

Convertible(from, to) == PhysicalType(from) = PhysicalType(to)

\* line 1046: cube_lo.to(cube_hi.unit) is a cube in the unit asked for
ConvertedUnit(lo, hi) == hi.unit

\* the size test with >= in place of >
TooLarge_geq(size) == size >= MaxCubeSize

\* line 1036
TooLarge(size) == size > MaxCubeSize

\* the checks without the unit conversion and the unit assertions
InputError_noUnits(hi, lo) ==
    IF TooLarge(hi.size) THEN "ValueError"
    ELSE IF ~(hi.naxis = hi.ndim /\ hi.ndim = 3) THEN "AssertionError"
    ELSE ""

\* lines 1036-1049: the first check that fails, "" when none does
InputError(hi, lo) ==
    IF TooLarge(hi.size) THEN "ValueError"
    ELSE IF ~(hi.naxis = hi.ndim /\ hi.ndim = 3) THEN "AssertionError"
    ELSE IF ~Convertible(lo.unit, hi.unit) THEN "UnitConversionError"
    ELSE IF hi.unit # ConvertedUnit(lo, hi)
         THEN "AssertionError: Cubes must have same or equivalent unit"
    ELSE IF hi.unit \notin BrightnessUnits
         THEN "AssertionError: Cubes must have brightness units."
    ELSE ""

\* a slice times a scale factor (lines 1075-1076)
ScaledPlane(pl, factor) == [p \in DOMAIN pl |-> RMul(pl[p], factor)]

\* line 243: the default min_beam_fraction
DefaultBeamFraction == Rat(1, 10)

\* lines 1075-1078: <<fftsum, combo, combo.real>> of one pair of slices
FeatheredPlane(kf, ik, slc_hi, slc_lo, hsf, lsf, sh) ==
    LET r == fftmerge(kf, ik, ScaledPlane(slc_hi, hsf), ScaledPlane(slc_lo, lsf), sh,
                      FALSE, Zero, FALSE, DefaultBeamFraction)
    IN  <<r[1], r[2], [p \in Idx(sh) |-> Real(r[2][p])]>>

\* the slice of the low-resolution cube paired with slice i of the other
\* cube, taken one plane off
PairedSlice_shifted(dlo, i) == dlo[(i % Len(dlo)) + 1]

\* line 1073: zip pairs slice i with slice i
PairedSlice(dlo, i) == dlo[i]

\* a call to another routine: its name and the plane it works on, Whole when
\* it works on the array as a whole
Whole == -1
Call(op, plane) == [op |-> op, plane |-> plane]

\* the loop body with the kernel built again for every plane
LoopCalls_kernelPerPlane(i) ==
    <<Call("feather_kernel", i), Call("fftmerge", i), Call("write", i)>>

\* lines 1075-1078: what one turn of the loop does for plane i (counted from 0)
LoopCalls(i) == <<Call("fftmerge", i), Call("write", i)>>

\* the result stored in every slot of the output
WritePlane_broadcast(out, i, plane) == [j \in DOMAIN out |-> plane]

\* line 1078: outcube[ii,:,:] = combo.real
WritePlane(out, i, plane) == [out EXCEPT ![i] = plane]

\* line 1066: np.empty_like leaves the memory as it finds it
Uninit == <<0, 0, -1>>
EmptyLike(n, sh) == [i \in 1 .. n |-> [p \in Idx(sh) |-> Uninit]]

\* planes per cube run over 1 .. MaxPlanes
MaxPlanes == 2

CubeShapes == {<<2, 2>>, <<1, 4>>}
PlaneSamples == {Num(2), NaN}
Planes(sh) == {Spike(sh, One, LastIdx(sh), v) : v \in PlaneSamples}
CubeData(sh) == UNION {[1 .. n -> Planes(sh)] : n \in 1 .. MaxPlanes}

\* hd['NAXIS'] and ndim of the high-resolution cube
Dimensions == {<<3, 3>>, <<2, 2>>, <<4, 3>>}

HiUnits == {"Jy/beam", "K", "m"}
LoUnits == {"Jy/beam", "mJy/beam", "K", "m"}

\* the element count of the whole cube: that of the planes the model holds, or
\* a count at the ceiling for a cube of which the model holds only these planes
Sizes(data, sh) == {Len(data) * NPix(sh), MaxCubeSize, MaxCubeSize + 1}

\* <<highresscalefactor, lowresscalefactor>>
ScaleFactors == {<<One, One>>, <<Num(2), One>>, <<One, Rat(1, 2)>>}

\* the beam width and the pixel sizes a cube header may give
CubeFwhms == {1}
CubePixScales == {1, 33}

InitCube ==
    /\ pc = "call"
    /\ shape \in CubeShapes
    /\ \E data \in CubeData(shape), dims \in Dimensions, unit \in HiUnits :
         \E size \in Sizes(data, shape) :
             cube_hi = [data |-> data, naxis |-> dims[1], ndim |-> dims[2],
                        unit |-> unit, size |-> size]
    /\ \E unit \in LoUnits : cube_lo = [unit |-> unit, given |-> unit]
    /\ \E sf \in ScaleFactors : highresscalefactor = sf[1] /\ lowresscalefactor = sf[2]
    /\ lowresfwhm \in CubeFwhms
    /\ pixscale = None /\ kernel = None /\ kfft = None /\ ikfft = None
    /\ im_hi = None /\ im_lo = None /\ highpassfilterSD = None
    /\ replace_hires = None /\ deconvSD = None /\ min_beam_fraction = None
    /\ nan_hi = None /\ nan_lo = None
    /\ fft_hi = None /\ fft_lo = None
    /\ fftsum = None /\ combo = None
    /\ dcube_lo = None /\ outcube = None /\ ii = None /\ err = None /\ ret = None
    /\ SimpleIdle /\ calls = <<>>

cubeFrame == <<shape, mergeArgs, mergeLocals, kernel, lowresfwhm,
               highresscalefactor, lowresscalefactor, cube_hi, simpleVars>>

\* lines 1031-1049: the checks, the pixel scale read from the header, the
\* low-resolution cube brought to the unit of the other (cube_lo.given keeps
\* the unit the caller's cube has)
Validate ==
    /\ pc = "call"
    /\ err' = InputError(cube_hi, cube_lo)
    /\ IF err' # ""
       THEN /\ pc' = "failed"
            /\ UNCHANGED <<pixscale, cube_lo>>
       ELSE /\ pc' = "validated"
            /\ pixscale' \in {s \in CubePixScales : Representable(shape, lowresfwhm, s)}
            /\ cube_lo' = [cube_lo EXCEPT !.unit = ConvertedUnit(cube_lo, cube_hi)]
    /\ UNCHANGED <<cubeFrame, kfft, ikfft, fftsum, combo, dcube_lo, outcube, ii, ret,
                   calls>>

\* lines 1052-1066: the one reprojection onto the high-resolution header, whose
\* result is whatever the reprojection library interpolates, and the
\* allocation of the output
Reproject ==
    /\ pc = "validated"
    /\ dcube_lo' \in [1 .. Len(cube_hi.data) -> Planes(shape)]
    /\ outcube' = EmptyLike(Len(cube_hi.data), shape)
    /\ calls' = Append(calls, Call("reproject", Whole))
    /\ pc' = "regridded"
    /\ UNCHANGED <<cubeFrame, pixscale, cube_lo, kfft, ikfft, fftsum, combo, ii,
                   err, ret>>

\* line 1068
BuildKernel ==
    /\ pc = "regridded"
    /\ LET ks == feather_kernel(shape, lowresfwhm, pixscale)
       IN  kfft' = ks[1] /\ ikfft' = ks[2]
    /\ ii' = 0
    /\ calls' = Append(calls, Call("feather_kernel", Whole))
    /\ pc' = "loop"
    /\ UNCHANGED <<cubeFrame, pixscale, cube_lo, fftsum, combo, dcube_lo, outcube,
                   err, ret>>

\* lines 1073-1080: one turn of the loop; ii counts the slices done
MergePlane ==
    /\ pc = "loop"
    /\ ii < Len(cube_hi.data) /\ ii < Len(dcube_lo)
    /\ LET r == FeatheredPlane(kfft, ikfft, cube_hi.data[ii + 1],
                               PairedSlice(dcube_lo, ii + 1),
                               highresscalefactor, lowresscalefactor, shape)
       IN  /\ fftsum' = r[1]
           /\ combo' = r[2]
           /\ outcube' = WritePlane(outcube, ii + 1, r[3])
    /\ calls' = calls \o LoopCalls(ii)
    /\ ii' = ii + 1
    /\ UNCHANGED <<cubeFrame, pixscale, cube_lo, kfft, ikfft, dcube_lo, err, ret, pc>>

\* lines 1082-1087
Return ==
    /\ pc = "loop"
    /\ ~(ii < Len(cube_hi.data) /\ ii < Len(dcube_lo))
    /\ \E return_regridded_cube_lo \in BOOLEAN, as_hdu \in BOOLEAN :
           ret' = IF return_regridded_cube_lo
                  THEN [outcube |-> outcube, fitshdu_low |-> dcube_lo, hdu |-> FALSE]
                  ELSE [outcube |-> outcube, fitshdu_low |-> None, hdu |-> as_hdu]
    /\ pc' = "done"
    /\ UNCHANGED <<cubeFrame, pixscale, cube_lo, kfft, ikfft, fftsum, combo,
                   dcube_lo, outcube, ii, err, calls>>

NextCube == Validate \/ Reproject \/ BuildKernel \/ MergePlane \/ Return

SpecCube == InitCube /\ [][NextCube]_vars

------------------------------------------------------------------------------
(* Claims about fourier_combine_cubes, checked under SpecCube *)

NothingDone ==
    /\ dcube_lo = None /\ outcube = None
    /\ kfft = None /\ ikfft = None
    /\ fftsum = None /\ combo = None
    /\ ii = None /\ ret = None

\* C8: a high-resolution cube of more than 10^8 elements makes the call fail
\* with the size error, with no reprojection, kernel, transform or output; a
\* cube of exactly 10^8 elements does not fail that test.
C8_OversizeRefused ==
    /\ (pc # "call" /\ cube_hi.size > MaxCubeSize) =>
           (pc = "failed" /\ err = "ValueError" /\ NothingDone)
    /\ (pc = "failed" /\ err = "ValueError") => cube_hi.size > MaxCubeSize

C8_Witness ==
    pc = "failed" /\ err = "ValueError" /\ cube_hi.size = MaxCubeSize + 1

Is3D == cube_hi.naxis = 3 /\ cube_hi.ndim = 3

UnitsAcceptable ==
    Convertible(cube_lo.given, cube_hi.unit) /\ cube_hi.unit \in BrightnessUnits

UnitFailures ==
    {"UnitConversionError", "AssertionError: Cubes must have same or equivalent unit",
     "AssertionError: Cubes must have brightness units."}

\* C9: a high-resolution cube that is not 3-dimensional, and a pair of cubes
\* whose units are not equivalent brightness units, each make the call fail with
\* a failure of their own; a failed call has reprojected nothing, merged no
\* plane and returns no output cube.
C9_PreconditionFailures ==
    /\ (pc # "call" /\ cube_hi.size <= MaxCubeSize /\ ~Is3D) =>
           (pc = "failed" /\ err = "AssertionError")
    /\ (pc # "call" /\ cube_hi.size <= MaxCubeSize /\ Is3D /\ ~UnitsAcceptable) =>
           (pc = "failed" /\ err \in UnitFailures)
    /\ pc = "failed" => NothingDone
    /\ "AssertionError" \notin UnitFailures

C9_Witness ==
    /\ pc = "failed" /\ Is3D /\ cube_hi.size <= MaxCubeSize
    /\ err = "AssertionError: Cubes must have brightness units."

\* C10: the returned cube has as many planes as the high-resolution cube, and
\* plane i is the real part of the combo that fftmerge (default policy) gives for
\* plane i of the high-resolution cube times highresscalefactor and plane i of
\* the regridded low-resolution cube times lowresscalefactor, under the one
\* kernel pair of the call; no other plane enters it.
C10_PlanewiseMerge ==
    pc = "done" =>
        /\ Len(ret.outcube) = Len(cube_hi.data)
        /\ <<kfft, ikfft>> = feather_kernel(shape, lowresfwhm, pixscale)
        /\ \A i \in 1 .. Len(cube_hi.data) :
               LET merged == fftmerge(kfft, ikfft,
                                      ScaledPlane(cube_hi.data[i], highresscalefactor),
                                      ScaledPlane(dcube_lo[i], lowresscalefactor),
                                      shape, FALSE, Zero, FALSE, DefaultBeamFraction)
               IN  ret.outcube[i] = [p \in Idx(shape) |-> Real(merged[2][p])]

C10_Witness ==
    /\ pc = "done"
    /\ Len(cube_hi.data) = 2
    /\ cube_hi.data[1] # cube_hi.data[2]
    /\ dcube_lo[1] # dcube_lo[2]
    /\ ret.outcube[1] # ret.outcube[2]
    /\ highresscalefactor # One
    /\ \A p \in Idx(shape) : IsFinite(ret.outcube[1][p]) /\ IsFinite(ret.outcube[2][p])

------------------------------------------------------------------------------
(* regrid, lines 82-139 *)

\* a FITS header: the number of axes, the grid sides, the pixel size, the
\* beam major axis, and the sky frame (whose image the coordinates are)
Header(naxis, sh, cdelt, bmaj, frame) ==
    [NAXIS |-> naxis, NAXIS1 |-> sh[2], NAXIS2 |-> sh[1], cdelt |-> cdelt,
     BMAJ |-> bmaj, frame |-> frame]

\* an ndarray: its rank, the sides of its last two axes, its samples there
NdArray(ndim, sh, pix) == [ndim |-> ndim, shape |-> sh, pix |-> pix]

\* fits.PrimaryHDU(data, header)
PrimaryHDU(data, header) == [data |-> data, header |-> header]

\* the checks with the one on the low-resolution input left out
RegridError_hiresOnly(hd1, im1, im2raw, hd2) ==
    IF ~(hd1.NAXIS = im1.ndim /\ im1.ndim = 2)
    THEN "AssertionError: Error: Input hires image dimension non-equal to 2."
    ELSE ""

\* lines 113-114: the first assertion that fails, "" when none does
RegridError(hd1, im1, im2raw, hd2) ==
    IF ~(hd2.NAXIS = im2raw.ndim /\ im2raw.ndim = 2)
    THEN "AssertionError: Error: Input lores image dimension non-equal to 2."
    ELSE IF ~(hd1.NAXIS = im1.ndim /\ im1.ndim = 2)
    THEN "AssertionError: Error: Input hires image dimension non-equal to 2."
    ELSE ""

\* the returned HDU carrying the header of the image that was regridded
RegridHDU_sourceHeader(im2, hd1, hd2) == PrimaryHDU(im2, hd2)

\* line 136
RegridHDU(im2, hd1, hd2) == PrimaryHDU(im2, hd1)

\* lines 123-125: <<nax1, nax2>>
RegridAxes(hd1, hd2) == <<hd1.NAXIS1, hd1.NAXIS2>>

\* line 119: the pixel size of the celestial frame of a header
PixelScale(hd) == hd.cdelt

\* regrid, given the image im2 that reproject_interp (line 133) gives back
regrid(hd1, im1, im2raw, hd2, im2) ==
    LET e == RegridError(hd1, im1, im2raw, hd2)
    IN  IF e # ""
        THEN [err |-> e, calls |-> <<>>, rhdu |-> None, im2 |-> None,
              nax1 |-> 0, nax2 |-> 0, pixscale |-> 0]
        ELSE [err |-> "", calls |-> <<Call("reproject_interp", Whole)>>,
              rhdu |-> RegridHDU(im2, hd1, hd2), im2 |-> im2,
              nax1 |-> RegridAxes(hd1, hd2)[1], nax2 |-> RegridAxes(hd1, hd2)[2],
              pixscale |-> PixelScale(hd1)]

(* The inputs of a regrid call *)

\* ranks and NAXIS values run over 1 .. MaxDim
MaxDim == 3
Dims == 1 .. MaxDim

HiShapes == {<<2, 2>>, <<1, 4>>}
LoShapes == {<<1, 2>>, <<2, 2>>}

\* images whose transform is real: flat but for the first pixel
ImageSamples == {Num(1), Num(2), NaN}
Pixels(sh) == {Spike(sh, One, FirstIdx, v) : v \in ImageSamples}

\* what reproject_interp may give back: an image on the grid of the header
\* it projects onto, its samples whatever the interpolation makes them
Reprojections(hd) ==
    {NdArray(2, <<hd.NAXIS2, hd.NAXIS1>>, pix) : pix \in Pixels(<<hd.NAXIS2, hd.NAXIS1>>)}

HeaderPixScales == {1, 2}
BeamMajors == {1, 2}

InitRegrid ==
    /\ pc = "regrid"
    /\ \E naxis \in Dims, sh \in HiShapes, cdelt \in HeaderPixScales :
           header_hi = Header(naxis, sh, cdelt, None, "hi")
    /\ \E ndim \in Dims, sh \in HiShapes :
           im_hi = NdArray(ndim, sh, Spike(sh, One, FirstIdx, Num(2)))
    /\ \E naxis \in Dims, sh \in LoShapes :
           header_low = Header(naxis, sh, 2, 1, "lo")
    /\ \E ndim \in Dims :
           im_lowraw = NdArray(ndim, <<1, 2>>, Spike(<<1, 2>>, One, FirstIdx, Num(2)))
    /\ shape = None /\ kfft = None /\ ikfft = None
    /\ im_lo = None /\ highpassfilterSD = None
    /\ replace_hires = None /\ deconvSD = None /\ min_beam_fraction = None
    /\ nan_hi = None /\ nan_lo = None
    /\ fft_hi = None /\ fft_lo = None
    /\ fftsum = None /\ combo = None
    /\ lowresfwhm = None /\ pixscale = None /\ kernel = None
    /\ cube_hi = None /\ cube_lo = None
    /\ highresscalefactor = None /\ lowresscalefactor = None
    /\ dcube_lo = None /\ outcube = None /\ ii = None /\ err = None /\ ret = None
    /\ hires = None /\ lores = None /\ im_low = None /\ hdu_low = None
    /\ return_hdu = None /\ return_regridded_lores = None
    /\ SAS = None /\ LAS = None /\ ratio = None
    /\ fft_lo_deconvolved = None /\ mask = None
    /\ entry = None /\ lores2 = None /\ output_fits = None /\ targres = None
    /\ calls = <<>>

\* what a regrid call leaves alone
regridFrame == <<kfft, ikfft, im_hi, im_lo, highpassfilterSD, replace_hires,
                 deconvSD, min_beam_fraction, mergeLocals, fftsum, combo,
                 lowresfwhm, kernel, cubeArgs, dcube_lo, outcube, ii, ret,
                 hires, lores, header_hi, header_low, im_lowraw,
                 return_hdu, return_regridded_lores, SAS, LAS, ratio,
                 fft_lo_deconvolved, mask, entry, lores2, output_fits, targres>>

\* the call regrid(header_hi, im_hi, im_lowraw, header_low), lines 702-703 and
\* 1128-1129: its results are bound to hdu_low, im_low, nax1, nax2, pixscale
Regrid ==
    /\ pc = "regrid"
    /\ \E im2 \in Reprojections(header_hi) :
           LET r == regrid(header_hi, im_hi, im_lowraw, header_low, im2)
           IN  /\ err' = r.err
               /\ calls' = Append(calls, Call("regrid", Whole)) \o r.calls
               /\ IF r.err # ""
                  THEN /\ pc' = "failed"
                       /\ UNCHANGED <<hdu_low, im_low, shape, pixscale>>
                  ELSE /\ pc' = "regridded"
                       /\ hdu_low' = r.rhdu
                       /\ im_low' = r.im2
                       /\ shape' = <<r.nax2, r.nax1>>
                       /\ pixscale' = r.pixscale
    /\ UNCHANGED regridFrame

NextRegrid == Regrid

SpecRegrid == InitRegrid /\ [][NextRegrid]_vars

(* Claims about regrid, checked under SpecRegrid *)

TwoD(hd, im) == hd.NAXIS = 2 /\ im.ndim = 2

Reprojected == \E k \in 1 .. Len(calls) : calls[k].op = "reproject_interp"

\* C11: when the high-resolution image or header, or the low-resolution image
\* or header, is not 2-dimensional, regrid fails with the assertion on the
\* dimension, and reproject_interp has not been called.
C11_DimensionFailure ==
    (pc # "regrid" /\ ~(TwoD(header_hi, im_hi) /\ TwoD(header_low, im_lowraw))) =>
        /\ pc = "failed"
        /\ err \in {"AssertionError: Error: Input lores image dimension non-equal to 2.",
                    "AssertionError: Error: Input hires image dimension non-equal to 2."}
        /\ ~Reprojected
        /\ hdu_low = None /\ im_low = None

C11_Witness ==
    /\ pc = "failed" /\ ~Reprojected
    /\ TwoD(header_hi, im_hi) /\ header_low.NAXIS = 2 /\ im_lowraw.ndim = 3

\* C12: a regrid call on 2-dimensional inputs succeeds and returns the
\* reprojected image in an HDU that carries the high-resolution header, not
\* the header of the low-resolution image, and nax1, nax2 are the NAXIS1 and
\* NAXIS2 of the high-resolution header.
C12_ReferenceFrame ==
    (pc # "regrid" /\ TwoD(header_hi, im_hi) /\ TwoD(header_low, im_lowraw)) =>
        /\ pc = "regridded" /\ err = ""
        /\ hdu_low.header = header_hi /\ hdu_low.header # header_low
        /\ hdu_low.data = im_low
        /\ im_low \in Reprojections(header_hi)
        /\ shape = <<header_hi.NAXIS2, header_hi.NAXIS1>>

C12_Witness ==
    /\ pc = "regridded" /\ Reprojected
    /\ header_hi.NAXIS1 # header_low.NAXIS1
    /\ im_hi.shape # <<header_hi.NAXIS2, header_hi.NAXIS1>>

------------------------------------------------------------------------------
(* feather_simple, lines 617-721 *)

\* an optional argument: None, or Some(v) when the caller gives the value v
Some(v) == <<v>>
Value(opt) == opt[1]

\* lines 50-58 of file_in: the header of an HDU with NAXIS and the NAXISn set
\* from the image read (the model's HDUs hold their data squeezed)
FileHeader(hdu) ==
    Header(hdu.data.ndim, hdu.data.shape, hdu.header.cdelt, hdu.header.BMAJ,
           hdu.header.frame)

\* the beam of the low-resolution header taken whether or not a width is given
ResolvedFwhm_fromHeader(given, hd) == Some(hd.BMAJ)

\* lines 698-700
ResolvedFwhm(given, hd) == IF given = None THEN Some(hd.BMAJ) ELSE given

\* the calls lines 698-700 make
ResolveCalls(given) ==
    IF given = None THEN <<Call("Beam.from_fits_header", Whole)>> ELSE <<>>

\* lines 707-708: the two images handed to fftmerge
MergeInputs(hi, low, lowraw, hsf, lsf) ==
    <<ScaledPlane(hi.pix, hsf), ScaledPlane(low.pix, lsf)>>

RealPart(a) == [p \in DOMAIN a |-> Real(a[p])]

\* the result packaged with the header of the regridded low-resolution HDU's
\* source image
SimpleResult_loresHeader(cmb, hdu_hi, hdu_lo, lo, as_hdu, with_lores) ==
    [combo |-> IF as_hdu THEN PrimaryHDU(RealPart(cmb), lo.header) ELSE cmb,
     hdu_low |-> IF with_lores THEN hdu_lo ELSE None,
     pair |-> with_lores]

\* lines 714-721: what the call returns; pair tells whether it is the tuple
\* (combo, hdu_low) or combo alone
SimpleResult(cmb, hdu_hi, hdu_lo, lo, as_hdu, with_lores) ==
    [combo |-> IF as_hdu THEN PrimaryHDU(RealPart(cmb), hdu_hi.header) ELSE cmb,
     hdu_low |-> IF with_lores THEN hdu_lo ELSE None,
     pair |-> with_lores]

(* The inputs of a feather_simple call *)

\* <<highpassfilterSD, replace_hires, deconvSD>>
Policies == {<<FALSE, Zero, FALSE>>, <<TRUE, Zero, FALSE>>, <<FALSE, Rat(1, 2), TRUE>>}

HiHDUs ==
    {PrimaryHDU(NdArray(ndim, sh, pix), Header(naxis, sh, cdelt, None, "hi")) :
        ndim \in {2, 3}, naxis \in {2, 3}, cdelt \in HeaderPixScales,
        pix \in {Spike(sh, One, FirstIdx, Num(2)) : sh \in HiShapes},
        sh \in HiShapes}

WellFormed(hdu) == DOMAIN hdu.data.pix = Idx(hdu.data.shape)

LoHDUs ==
    {PrimaryHDU(NdArray(ndim, <<1, 2>>, Spike(<<1, 2>>, One, FirstIdx, Num(2))),
                Header(ndim, <<1, 2>>, 4, bmaj, "lo")) :
        ndim \in {2, 3}, bmaj \in BeamMajors}

GivenFwhms == {None} \cup {Some(f) : f \in Fwhms}

InitSimple ==
    /\ pc = "call"
    /\ hires \in {h \in HiHDUs : WellFormed(h)}
    /\ lores \in LoHDUs
    /\ lowresfwhm \in GivenFwhms
    /\ Representable(hires.data.shape, Value(ResolvedFwhm(lowresfwhm, lores.header)),
                     hires.header.cdelt)
    /\ \E sf \in ScaleFactors : highresscalefactor = sf[1] /\ lowresscalefactor = sf[2]
    /\ \E pol \in Policies :
           highpassfilterSD = pol[1] /\ replace_hires = pol[2] /\ deconvSD = pol[3]
    /\ return_hdu \in BOOLEAN
    /\ return_regridded_lores \in BOOLEAN
    /\ shape = None /\ kfft = None /\ ikfft = None
    /\ im_hi = None /\ im_lo = None /\ min_beam_fraction = None
    /\ nan_hi = None /\ nan_lo = None
    /\ fft_hi = None /\ fft_lo = None
    /\ fftsum = None /\ combo = None
    /\ pixscale = None /\ kernel = None
    /\ cube_hi = None /\ cube_lo = None
    /\ dcube_lo = None /\ outcube = None /\ ii = None /\ err = None /\ ret = None
    /\ header_hi = None /\ header_low = None /\ im_lowraw = None
    /\ im_low = None /\ hdu_low = None
    /\ SAS = None /\ LAS = None /\ ratio = None
    /\ fft_lo_deconvolved = None /\ mask = None
    /\ entry = None /\ lores2 = None /\ output_fits = None /\ targres = None
    /\ calls = <<>>

\* what no step of feather_simple or feather_compare changes
simpleFrame == <<im_lo, min_beam_fraction, mergeLocals, kernel, cube_hi, cube_lo,
                 dcube_lo, outcube, ii, hires, lores, highresscalefactor,
                 lowresscalefactor, highpassfilterSD, replace_hires, deconvSD,
                 return_hdu, return_regridded_lores, SAS, LAS,
                 fft_lo_deconvolved, mask, entry, lores2, output_fits, targres>>

\* lines 695-696 (and 1125-1126): the two file_in calls
ReadInputs ==
    /\ pc = "call"
    /\ im_hi' = hires.data
    /\ header_hi' = FileHeader(hires)
    /\ im_lowraw' = lores.data
    /\ header_low' = FileHeader(lores)
    /\ calls' = calls \o <<Call("file_in", Whole), Call("file_in", Whole)>>
    /\ pc' = "read"
    /\ UNCHANGED <<simpleFrame, shape, kfft, ikfft, fftsum, combo, lowresfwhm,
                   pixscale, im_low, hdu_low, ratio, err, ret>>

\* lines 698-700
ResolveFwhm ==
    /\ pc = "read"
    /\ lowresfwhm' = ResolvedFwhm(lowresfwhm, header_low)
    /\ calls' = calls \o ResolveCalls(lowresfwhm)
    /\ pc' = "regrid"
    /\ UNCHANGED <<simpleFrame, shape, kfft, ikfft, fftsum, combo, pixscale,
                   im_hi, header_hi, im_lowraw, header_low, im_low, hdu_low,
                   ratio, err, ret>>

\* line 705
SimpleKernel ==
    /\ pc = "regridded"
    /\ LET ks == feather_kernel(shape, Value(lowresfwhm), pixscale)
       IN  kfft' = ks[1] /\ ikfft' = ks[2]
    /\ calls' = Append(calls, Call("feather_kernel", Whole))
    /\ pc' = "kernel"
    /\ UNCHANGED <<simpleFrame, shape, fftsum, combo, lowresfwhm, pixscale,
                   im_hi, header_hi, im_lowraw, header_low, im_low, hdu_low,
                   ratio, err, ret>>

\* lines 707-712
SimpleMerge ==
    /\ pc = "kernel"
    /\ LET ims == MergeInputs(im_hi, im_low, im_lowraw, highresscalefactor,
                              lowresscalefactor)
           r == fftmerge(kfft, ikfft, ims[1], ims[2], shape, highpassfilterSD,
                         replace_hires, deconvSD, DefaultBeamFraction)
       IN  fftsum' = r[1] /\ combo' = r[2]
    /\ calls' = Append(calls, Call("fftmerge", Whole))
    /\ pc' = "merged"
    /\ UNCHANGED <<simpleFrame, shape, kfft, ikfft, lowresfwhm, pixscale,
                   im_hi, header_hi, im_lowraw, header_low, im_low, hdu_low,
                   ratio, err, ret>>

\* lines 714-721
SimpleReturn ==
    /\ pc = "merged"
    /\ ret' = SimpleResult(combo, hires, hdu_low, lores, return_hdu,
                           return_regridded_lores)
    /\ pc' = "done"
    /\ UNCHANGED <<simpleFrame, shape, kfft, ikfft, fftsum, combo, lowresfwhm,
                   pixscale, im_hi, header_hi, im_lowraw, header_low, im_low,
                   hdu_low, ratio, err, calls>>

NextSimple ==
    ReadInputs \/ ResolveFwhm \/ Regrid \/ SimpleKernel \/ SimpleMerge \/ SimpleReturn

SpecSimple == InitSimple /\ [][NextSimple]_vars

(* Claims about feather_simple, checked under SpecSimple *)

HiGrid == <<header_hi.NAXIS2, header_hi.NAXIS1>>

Without(seq, op) == SelectSeq(seq, LAMBDA c : c.op # op)
IsPrefix(a, b) == Len(a) <= Len(b) /\ a = SubSeq(b, 1, Len(a))
Called(op) == \E k \in 1 .. Len(calls) : calls[k].op = op

\* the order of the steps of a feather_simple call, the optional one apart
StepOrder ==
    <<Call("file_in", Whole), Call("file_in", Whole), Call("regrid", Whole),
      Call("reproject_interp", Whole), Call("feather_kernel", Whole),
      Call("fftmerge", Whole)>>

\* the steps are taken in the fixed order; the kernel is that of the regridded
\* grid and its pixel size; the merge is that of the two scaled images, the
\* low-resolution one regridded
OrderedSteps ==
    /\ IsPrefix(Without(calls, "Beam.from_fits_header"), StepOrder)
    /\ Called("Beam.from_fits_header") =>
           (calls[3].op = "Beam.from_fits_header" /\ ~Called("regrid"))
               \/ (Len(calls) > 3 /\ calls[3].op = "Beam.from_fits_header"
                   /\ calls[4].op = "regrid")
    /\ pc \in {"kernel", "merged", "done"} =>
           /\ im_low.shape = HiGrid /\ hdu_low.data = im_low
           /\ <<kfft, ikfft>> =
                  feather_kernel(im_low.shape, Value(lowresfwhm), PixelScale(header_hi))
    /\ pc \in {"merged", "done"} =>
           <<fftsum, combo>> =
               fftmerge(kfft, ikfft, ScaledPlane(im_hi.pix, highresscalefactor),
                        ScaledPlane(im_low.pix, lowresscalefactor), HiGrid,
                        highpassfilterSD, replace_hires, deconvSD, DefaultBeamFraction)

\* the step that settles the beam width: the header's beam is read exactly
\* when no width was given, and a given width stays as it is
FwhmStep ==
    pc = "read" =>
        IF lowresfwhm = None
        THEN /\ lowresfwhm' = Some(header_low.BMAJ)
             /\ calls' = Append(calls, Call("Beam.from_fits_header", Whole))
        ELSE lowresfwhm' = lowresfwhm /\ calls' = calls

\* C19: feather_simple resolves the beam width, regrids, builds the kernel,
\* merges and packages in that order; the beam of the low-resolution header is
\* read only when lowresfwhm is None and a given width is never replaced; the
\* kernel comes from the regridded grid's shape and pixel size; the merge takes
\* the scaled high-resolution image and the scaled regridded low-resolution
\* image.
C19_StepSequence == []OrderedSteps /\ [][FwhmStep]_vars

C19_Witness ==
    /\ pc = "done" /\ ~Called("Beam.from_fits_header")
    /\ lowresfwhm # Some(header_low.BMAJ)
    /\ im_low.pix # im_lowraw.pix
    /\ lowresscalefactor # One

------------------------------------------------------------------------------
(* feather_compare, lines 1089-1159 *)

\* line 1137: angscales = nax1/rr * pixscale at pixel p, rr the distance from
\* the grid centre, compared with an angular scale a >= 0 without the root:
\* nax1*scale/rr > a is (2*nax1*scale)^2 > a^2 * (2 rr)^2, and rr = 0 gives +Inf
AngscaleAbove(sh, p, scale, a) ==
    Radius4(sh, p) = 0 \/ (2 * sh[2] * scale) * (2 * sh[2] * scale) > a * a * Radius4(sh, p)

AngscaleBelow(sh, p, scale, a) ==
    Radius4(sh, p) # 0 /\ (2 * sh[2] * scale) * (2 * sh[2] * scale) < a * a * Radius4(sh, p)

\* the band with its two ends included
InBand_closed(sh, p, scale, sas, las) ==
    ~AngscaleBelow(sh, p, scale, sas) /\ ~AngscaleAbove(sh, p, scale, las)

\* line 1144: (angscales > SAS) & (angscales < LAS)
InBand(sh, p, scale, sas, las) ==
    AngscaleAbove(sh, p, scale, sas) /\ AngscaleBelow(sh, p, scale, las)

\* the checks made before anything is read, with the one on the window left out
WindowError_none(sas, las) == ""

\* line 1124
WindowError(sas, las) == IF las > sas THEN "" ELSE "AssertionError"

\* lines 1139-1140: the shifted transform of a sanitised image
ShiftedTransform(im, sh) == fftshift(Transformed(im, sh), sh)

\* lines 1141-1142
DeconvolvedLores(flo, kf, mbf) ==
    [p \in DOMAIN flo |-> IF RLess(kf[p], mbf) THEN CNaN ELSE CDivR(flo[p], kf[p])]

\* a[mask]: the selected elements in row-major order
Selected(a, m, sh) ==
    LET n == sh[1] * sh[2]
        at == SelectSeq([k \in 1 .. n |-> Unravel(sh, k - 1)], LAMBDA p : m[p])
    IN  [k \in 1 .. Len(at) |-> a[at[k]]]

\* line 1145: mask.sum() > 0
MaskError(m, sh) == IF \E p \in Idx(sh) : m[p] THEN "" ELSE "AssertionError"

\* line 1157
Ratio(fhi, dec, m, sh) ==
    LET num == Selected([p \in Idx(sh) |-> CAbs(fhi[p])], m, sh)
        den == Selected([p \in Idx(sh) |-> CAbs(dec[p])], m, sh)
    IN  [k \in 1 .. Len(num) |-> RDiv(num[k], den[k])]

(* The inputs of a feather_compare call *)

\* angular scales run over 0 .. MaxScale, in the unit of the pixel size
MaxScale == 8
Scales == 0 .. MaxScale

CompareBeamFractions == {Rat(1, 10), Rat(1, 2)}

InitCompare ==
    /\ pc = "call"
    /\ hires \in {h \in HiHDUs : WellFormed(h) /\ h.header.NAXIS = 2}
    /\ lores \in {l \in LoHDUs : l.header.BMAJ = 1}
    /\ lowresfwhm \in Fwhms
    /\ Representable(hires.data.shape, lowresfwhm, hires.header.cdelt)
    /\ SAS \in Scales /\ LAS \in Scales
    /\ min_beam_fraction \in CompareBeamFractions
    /\ highpassfilterSD = FALSE
    /\ shape = None /\ kfft = None /\ ikfft = None
    /\ im_hi = None /\ im_lo = None
    /\ replace_hires = None /\ deconvSD = None
    /\ nan_hi = None /\ nan_lo = None
    /\ fft_hi = None /\ fft_lo = None
    /\ fftsum = None /\ combo = None
    /\ pixscale = None /\ kernel = None
    /\ cube_hi = None /\ cube_lo = None
    /\ highresscalefactor = None /\ lowresscalefactor = None
    /\ dcube_lo = None /\ outcube = None /\ ii = None /\ err = None /\ ret = None
    /\ header_hi = None /\ header_low = None /\ im_lowraw = None
    /\ im_low = None /\ hdu_low = None
    /\ return_hdu = None /\ return_regridded_lores = None
    /\ fft_lo_deconvolved = None /\ mask = None /\ ratio = None
    /\ entry = None /\ lores2 = None /\ output_fits = None /\ targres = None
    /\ calls = <<>>

\* what no step of feather_compare changes
compareFrame == <<im_lo, min_beam_fraction, nan_hi, nan_lo, kernel, cubeArgs,
                  dcube_lo, outcube, ii, hires, lores, highpassfilterSD,
                  replace_hires, deconvSD, return_hdu, return_regridded_lores,
                  SAS, LAS, lowresfwhm, fftsum, combo, ret, entry, lores2,
                  output_fits, targres>>

\* lines 1124-1126: the window check, then the two file_in calls
CompareRead ==
    /\ pc = "call"
    /\ err' = WindowError(SAS, LAS)
    /\ IF err' # ""
       THEN /\ pc' = "failed"
            /\ UNCHANGED <<im_hi, header_hi, im_lowraw, header_low, calls>>
       ELSE /\ pc' = "regrid"
            /\ im_hi' = hires.data
            /\ header_hi' = FileHeader(hires)
            /\ im_lowraw' = lores.data
            /\ header_low' = FileHeader(lores)
            /\ calls' = calls \o <<Call("file_in", Whole), Call("file_in", Whole)>>
    /\ UNCHANGED <<compareFrame, shape, kfft, ikfft, fft_hi, fft_lo, pixscale,
                   im_low, hdu_low, fft_lo_deconvolved, mask, ratio>>

\* lines 1131-1133: the kernel pair, shifted to put zero frequency at the centre
CompareKernel ==
    /\ pc = "regridded"
    /\ LET ks == feather_kernel(shape, lowresfwhm, pixscale)
       IN  kfft' = fftshift(ks[1], shape) /\ ikfft' = fftshift(ks[2], shape)
    /\ calls' = Append(calls, Call("feather_kernel", Whole))
    /\ pc' = "kernel"
    /\ UNCHANGED <<compareFrame, shape, fft_hi, fft_lo, pixscale, im_hi, header_hi,
                   im_lowraw, header_low, im_low, hdu_low, fft_lo_deconvolved,
                   mask, ratio, err>>

\* lines 1135-1144: the two shifted transforms, the deconvolved one, the mask
CompareSpectra ==
    /\ pc = "kernel"
    /\ fft_hi' = ShiftedTransform(im_hi.pix, shape)
    /\ fft_lo' = ShiftedTransform(im_low.pix, shape)
    /\ fft_lo_deconvolved' = DeconvolvedLores(fft_lo', kfft, min_beam_fraction)
    /\ mask' = [p \in Idx(shape) |-> InBand(shape, p, pixscale, SAS, LAS)]
    /\ pc' = "spectra"
    /\ UNCHANGED <<compareFrame, shape, kfft, ikfft, pixscale, im_hi, header_hi,
                   im_lowraw, header_low, im_low, hdu_low, ratio, err, calls>>

\* lines 1145-1158: the check that the window selects a bin, the plot of the
\* selected magnitudes and of their ratio; the function ends without a return
\* statement
CompareRatio ==
    /\ pc = "spectra"
    /\ err' = MaskError(mask, shape)
    /\ IF err' # ""
       THEN /\ pc' = "failed"
            /\ UNCHANGED <<ratio, calls>>
       ELSE /\ pc' = "done"
            /\ ratio' = Ratio(fft_hi, fft_lo_deconvolved, mask, shape)
            /\ calls' = Append(calls, Call("pylab", Whole))
    /\ UNCHANGED <<compareFrame, shape, kfft, ikfft, fft_hi, fft_lo, pixscale,
                   im_hi, header_hi, im_lowraw, header_low, im_low, hdu_low,
                   fft_lo_deconvolved, mask>>

NextCompare == CompareRead \/ Regrid \/ CompareKernel \/ CompareSpectra \/ CompareRatio

SpecCompare == InitCompare /\ [][NextCompare]_vars

(* Claims about feather_compare, checked under SpecCompare *)

\* the bins whose angular scale lies strictly between SAS and LAS, in
\* row-major order
BandBins ==
    SelectSeq([k \in 1 .. NPix(shape) |-> Unravel(shape, k - 1)],
              LAMBDA p : AngscaleAbove(shape, p, pixscale, SAS)
                         /\ AngscaleBelow(shape, p, pixscale, LAS))

\* the magnitude of the beam-deconvolved low-resolution transform at a bin,
\* NaN where the beam weight is below min_beam_fraction
DeconvolvedMagnitude(p) ==
    IF RLess(kfft[p], min_beam_fraction) THEN NaN
    ELSE CAbs(CDivR(fft_lo[p], kfft[p]))

\* the ratio of the two magnitudes over the band
BandRatio ==
    [k \in 1 .. Len(BandBins) |->
        RDiv(CAbs(fft_hi[BandBins[k]]), DeconvolvedMagnitude(BandBins[k]))]

\* the transforms and the beam weights are those of the two images on the
\* high-resolution grid, zero frequency at the centre
CompareSpectraRight ==
    /\ fft_hi = fftshift(fft2([p \in Idx(shape) |-> Complex(nan_to_num(im_hi.pix[p]))],
                              shape), shape)
    /\ fft_lo = fftshift(fft2([p \in Idx(shape) |-> Complex(nan_to_num(im_low.pix[p]))],
                              shape), shape)
    /\ kfft = fftshift(feather_kernel(shape, lowresfwhm, pixscale)[1], shape)

NoComparison == ratio = None /\ ret = None

\* C15: when LAS > SAS does not hold the call fails on that check with no image
\* read and nothing regridded; when no bin has its angular scale between SAS and
\* LAS the call fails on the mask check; neither failure leaves a comparison.
C15_WindowFailures ==
    /\ (pc # "call" /\ ~(LAS > SAS)) =>
           /\ pc = "failed" /\ err = "AssertionError"
           /\ calls = <<>> /\ im_hi = None /\ im_lowraw = None /\ hdu_low = None
    /\ (pc \in {"done", "failed"} /\ Called("feather_kernel") /\ Len(BandBins) = 0) =>
           (pc = "failed" /\ err = "AssertionError")
    /\ pc = "failed" => NoComparison
    /\ pc = "done" => (LAS > SAS /\ Len(BandBins) > 0)

C15_Witness ==
    pc = "failed" /\ LAS > SAS /\ Called("feather_kernel") /\ Len(BandBins) = 0

------------------------------------------------------------------------------
(* Claims about the order of the steps of fourier_combine_cubes, checked under
   SpecCube *)

Only(seq, op) == SelectSeq(seq, LAMBDA c : c.op = op)
PlanesOf(seq) == [k \in 1 .. Len(seq) |-> seq[k].plane]
UpTo(n) == [k \in 1 .. n |-> k - 1]

\* what plane i (counted from 1) of the output must hold once it is written
MergedPlane(i) ==
    LET merged == fftmerge(kfft, ikfft,
                           ScaledPlane(cube_hi.data[i], highresscalefactor),
                           ScaledPlane(dcube_lo[i], lowresscalefactor),
                           shape, FALSE, Zero, FALSE, DefaultBeamFraction)
    IN  [p \in Idx(shape) |-> Real(merged[2][p])]

\* C16: the planes are merged in increasing index order, each write to slot i
\* follows at once the merge of plane i, the slots written so far are 0 .. ii-1,
\* each written once and holding its own plane's result, the others are as
\* allocated, and a completed call has written every slot 0 .. N-1.
C16_PlaneOrder ==
    /\ pc \in {"loop", "done"} =>
           /\ PlanesOf(Only(calls, "fftmerge")) = UpTo(ii)
           /\ PlanesOf(Only(calls, "write")) = UpTo(ii)
           /\ \A k \in 1 .. Len(calls) :
                  calls[k].op = "write" =>
                      (k > 1 /\ calls[k - 1] = Call("fftmerge", calls[k].plane))
           /\ \A j \in 1 .. Len(outcube) :
                  IF j > ii THEN outcube[j] = EmptyLike(1, shape)[1]
                  ELSE outcube[j] = MergedPlane(j)
    /\ pc = "done" => (ii = Len(cube_hi.data) /\ Len(outcube) = ii)

C16_Witness ==
    /\ pc = "loop" /\ ii = 1 /\ Len(outcube) = 2
    /\ outcube[1] # EmptyLike(1, shape)[1]
    /\ \A p \in Idx(shape) : IsFinite(outcube[1][p])
    /\ dcube_lo[1] # dcube_lo[2]

\* C17: the low-resolution cube is reprojected once, then the kernel pair is
\* built once, both before the first plane is merged; the pair in use during
\* the loop is the one feather_kernel gives for the grid of the call.
C17_KernelOnce ==
    /\ pc \in {"call", "validated", "failed"} => calls = <<>>
    /\ pc = "regridded" => calls = <<Call("reproject", Whole)>>
    /\ pc \in {"loop", "done"} =>
           /\ Len(Only(calls, "reproject")) = 1
           /\ Len(Only(calls, "feather_kernel")) = 1
           /\ calls[1] = Call("reproject", Whole)
           /\ calls[2] = Call("feather_kernel", Whole)
           /\ <<kfft, ikfft>> = feather_kernel(shape, lowresfwhm, pixscale)

C17_Witness ==
    /\ pc = "done" /\ ii = 2
    /\ Len(Only(calls, "fftmerge")) = 2
    /\ \E p \in Idx(shape) : IsFinite(kfft[p]) /\ kfft[p] # One

------------------------------------------------------------------------------
(* AKB_combine, lines 471-564, and AKB_interpol, lines 399-467 *)

\* the outcome of a call: an exception raised, or the values returned
Raises(e) == [raised |-> TRUE, err |-> e]
Returns(image, header) == [raised |-> FALSE, image |-> image, header |-> header]

\* the conversion left as the identity, its last line reached
flux_unit_identity(image, header) == Returns(image, header)

\* lines 64-78: the raise of line 76 comes before the return of line 78
flux_unit(image, header) == Raises("NotImplementedError")

\* lines 358-372: the call that writes the file outname
WriteCall(outname) == [op |-> "outfits", plane |-> Whole, outname |-> outname]

\* what writes a file, line 372
IsWrite(c) == c.op = "outfits"

\* lines 520-558: the calls AKB_combine makes after the units are matched
CombineCalls(smooth, write) ==
    <<Call("regrid", Whole), Call("fft2", Whole), Call("fft2", Whole),
      Call("pbcorr", Whole), Call("flux_match", Whole),
      Call("feather_kernel", Whole), Call("fftmerge", Whole)>>
    \o (IF smooth > 0 THEN <<Call("smoothing", Whole)>> ELSE <<>>)
    \o <<Call("akb_plot", Whole), Call("casaheader", Whole)>>
    \o (IF write THEN <<WriteCall("output.fits")>> ELSE <<>>)

\* lines 450-464: the calls AKB_interpol makes after the units are matched
InterpolCalls(write) ==
    <<Call("smoothing", Whole), Call("freq_filling", Whole)>>
    \o (IF write THEN <<WriteCall("interpolate.fits")>> ELSE <<>>)

\* lines 561-564 and 467: what the call hands back; pair tells whether it is
\* the tuple (combo, hdu2)
AKBResult(which, with_lores) ==
    IF which = "AKB_combine" THEN [value |-> "combo", pair |-> with_lores]
    ELSE [value |-> "interpol_hdu", pair |-> FALSE]

\* the number of files an entry point reads, lines 505-506 and 439-441
FilesRead(which) == IF which = "AKB_combine" THEN 2 ELSE 3

\* lines 505-506 and 439-441
ReadCalls(which) == [k \in 1 .. FilesRead(which) |-> Call("file_in", Whole)]

\* lines 515-516 and 444-445: the two flux_unit calls in turn, an exception of
\* the first ending the call before the second is made
MatchFluxUnit(im1, hd1, im2, hd2) ==
    LET r1 == flux_unit(im1, hd1)
        r2 == flux_unit(im2, hd2)
    IN  IF r1.raised
        THEN [raised |-> TRUE, err |-> r1.err,
              calls |-> <<Call("flux_unit", Whole)>>]
        ELSE IF r2.raised
        THEN [raised |-> TRUE, err |-> r2.err,
              calls |-> <<Call("flux_unit", Whole), Call("flux_unit", Whole)>>]
        ELSE [raised |-> FALSE, first |-> r1, second |-> r2,
              calls |-> <<Call("flux_unit", Whole), Call("flux_unit", Whole)>>]

(* The inputs of an AKB_combine or AKB_interpol call *)

Entries == {"AKB_combine", "AKB_interpol"}

\* targres, a resolution in the units of the image: negative (the default),
\* zero and positive
TargetResolutions == {-1, 0, 1}

InitAKB ==
    /\ pc = "call"
    /\ entry \in Entries
    /\ hires \in {h \in HiHDUs : WellFormed(h)}
    /\ lores \in LoHDUs
    /\ lores2 \in IF entry = "AKB_interpol" THEN LoHDUs ELSE {None}
    /\ output_fits \in BOOLEAN
    /\ return_regridded_lores \in IF entry = "AKB_combine" THEN BOOLEAN ELSE {FALSE}
    /\ targres \in IF entry = "AKB_combine" THEN TargetResolutions ELSE {0}
    /\ shape = None /\ kfft = None /\ ikfft = None
    /\ im_hi = None /\ im_lo = None
    /\ highpassfilterSD = None /\ replace_hires = None /\ deconvSD = None
    /\ min_beam_fraction = None
    /\ nan_hi = None /\ nan_lo = None
    /\ fft_hi = None /\ fft_lo = None
    /\ fftsum = None /\ combo = None
    /\ lowresfwhm = None /\ pixscale = None /\ kernel = None
    /\ cube_hi = None /\ cube_lo = None
    /\ highresscalefactor = None /\ lowresscalefactor = None
    /\ dcube_lo = None /\ outcube = None /\ ii = None /\ err = None /\ ret = None
    /\ header_hi = None /\ header_low = None /\ im_lowraw = None
    /\ im_low = None /\ hdu_low = None
    /\ return_hdu = None
    /\ SAS = None /\ LAS = None /\ ratio = None
    /\ fft_lo_deconvolved = None /\ mask = None
    /\ calls = <<>>

\* what no step of AKB_combine or AKB_interpol changes
akbFrame == <<shape, kfft, ikfft, im_lo, highpassfilterSD, replace_hires,
              deconvSD, min_beam_fraction, mergeLocals, fftsum, combo, kernelVars, cubeArgs, dcube_lo, outcube, ii, hires, lores,
              hdu_low, return_hdu, return_regridded_lores, SAS, LAS,
              fft_lo_deconvolved, mask, ratio, entry, lores2, output_fits,
              targres>>

\* lines 505-506 of AKB_combine, lines 439-441 of AKB_interpol, whose second
\* low-resolution image is kept in im_low
ReadImages ==
    /\ pc = "call"
    /\ im_hi' = hires.data
    /\ header_hi' = FileHeader(hires)
    /\ im_lowraw' = lores.data
    /\ header_low' = FileHeader(lores)
    /\ im_low' = IF entry = "AKB_interpol" THEN lores2.data ELSE im_low
    /\ calls' = calls \o ReadCalls(entry)
    /\ pc' = "read"
    /\ UNCHANGED <<akbFrame, err, ret>>

\* lines 515-564 of AKB_combine, which matches the units of the
\* high-resolution image and then of the low-resolution one; lines 444-467 of
\* AKB_interpol, which matches those of its two low-resolution images
MatchUnits ==
    /\ pc = "read"
    /\ LET m == IF entry = "AKB_combine"
                THEN MatchFluxUnit(im_hi, header_hi, im_lowraw, header_low)
                ELSE MatchFluxUnit(im_lowraw, header_low, im_low, FileHeader(lores2))
       IN  IF m.raised
           THEN /\ err' = m.err
                /\ calls' = calls \o m.calls
                /\ pc' = "failed"
                /\ UNCHANGED ret
           ELSE /\ calls' = calls \o m.calls \o
                        (IF entry = "AKB_combine"
                         THEN CombineCalls(targres, output_fits)
                         ELSE InterpolCalls(output_fits))
                /\ ret' = AKBResult(entry, return_regridded_lores)
                /\ pc' = "done"
                /\ UNCHANGED err
    /\ UNCHANGED <<akbFrame, im_hi, header_hi, im_lowraw, header_low, im_low>>

NextAKB == ReadImages \/ MatchUnits

SpecAKB == InitAKB /\ [][NextAKB]_vars

(* C21 *)

\* the routines that regrid, transform, build the kernel, merge or write
LaterSteps ==
    {"regrid", "fft2", "pbcorr", "flux_match", "feather_kernel", "fftmerge",
     "smoothing", "freq_filling", "akb_plot", "casaheader", "outfits"}

\* C21: a call to AKB_combine or to AKB_interpol whose input images are read
\* goes no further than its first flux_unit call: once past the read it has
\* failed with NotImplementedError, having called file_in for each of its
\* input files and then flux_unit once and nothing else, so that it has
\* regridded, transformed, built and merged nothing, has written neither
\* output.fits nor interpolate.fits, and has returned nothing.
C21_NotImplemented ==
    /\ pc = "call" => calls = <<>>
    /\ pc = "read" => calls = ReadCalls(entry)
    /\ pc \notin {"call", "read"} =>
           /\ pc = "failed"
           /\ err = "NotImplementedError"
           /\ calls = ReadCalls(entry) \o <<Call("flux_unit", Whole)>>
    /\ \A k \in 1 .. Len(calls) :
           /\ calls[k].op \notin LaterSteps
           /\ ~IsWrite(calls[k])
    /\ ret = None

C21_Witness ==
    /\ pc = "failed" /\ err = "NotImplementedError"
    /\ entry = "AKB_interpol" /\ output_fits
    /\ Len(calls) = 4 /\ calls[3].op = "file_in" /\ calls[4].op = "flux_unit"
    /\ im_low = lores2.data

====
